---- MODULE Spec2Model ----
(***************************************************************************)
(* Model of client/src/pages/AllPerks.jsx: the useDebounce hook and the    *)
(* AllPerks component (search text, merchant filter, debounced search,     *)
(* fetched list, loading and error flags, and the fetches in flight).      *)
(*                                                                         *)
(* Strings that the code trims are sequences of characters, so that        *)
(* String.prototype.trim is computed and not assumed.  One step of the     *)
(* model is one task of the UI event loop: an event handler (or a timer    *)
(* callback, or the continuation of an awaited fetch) together with the    *)
(* render and the effects React runs for the state it changed.             *)
(***************************************************************************)
EXTENDS Integers, Sequences, FiniteSets, TLC

\* ---------------------------------------------------------------- bounds
MaxFetches == 3        \* fetches issued in one behaviour
MaxInFlight == 2       \* fetches outstanding at the same time

\* ------------------------------------------------------------- constants
Delay == 500           \* useDebounce(searchQuery, 500)
TickMs == Delay \div 2 \* granularity of the passage of time
FallbackMsg == "Failed to load perks"

\* JavaScript's undefined, as a value distinct from every string
Undefined == <<"undefined">>
EmptyStr == <<>>

\* ------------------------------------------------------------ JS strings
IsSpace(c) == c = " "

RECURSIVE TrimStart(_)
TrimStart(s) ==
  IF s = <<>> THEN <<>>
  ELSE IF IsSpace(Head(s)) THEN TrimStart(Tail(s)) ELSE s

RECURSIVE TrimEnd(_)
TrimEnd(s) ==
  IF s = <<>> THEN <<>>
  ELSE IF IsSpace(s[Len(s)]) THEN TrimEnd(SubSeq(s, 1, Len(s) - 1)) ELSE s

\* String.prototype.trim
Trim(s) == TrimEnd(TrimStart(s))

\* truthiness of a value that is a string or undefined
Truthy(v) == v # Undefined /\ v # EmptyStr

\* ---------------------------------------------------------------- inputs
\* values the search box can hold
SearchTexts == { <<>>, <<" ">>, <<" ", "a", " ">> }

Perk(m) == [merchant |-> m]

\* lists the collaborator can answer with (res.data.perks)
Responses ==
  { <<>>,
    << Perk(<<" ", "a">>), Perk(<<"a">>), Perk(Undefined) >>,
    << Perk(<<"b">>), Perk(<<" ">>), Perk(<<"b">>), Perk(<<>>) >> }

\* rejections of api.get: err.response, err.response.data and
\* err.response.data.message may each be missing
Errors ==
  { [response |-> FALSE, data |-> FALSE, hasMessage |-> FALSE, message |-> ""],
    [response |-> TRUE,  data |-> FALSE, hasMessage |-> FALSE, message |-> ""],
    [response |-> TRUE,  data |-> TRUE,  hasMessage |-> FALSE, message |-> ""],
    [response |-> TRUE,  data |-> TRUE,  hasMessage |-> TRUE,  message |-> ""],
    [response |-> TRUE,  data |-> TRUE,  hasMessage |-> TRUE,  message |-> "Server down"] }

\* ----------------------------------------------------------------- state
VARIABLES
  mounted,               \* the component exists
  perks,                 \* useState([])
  searchQuery,           \* useState('')
  merchantFilter,        \* useState('')
  uniqueMerchants,       \* useState([])
  loading,               \* useState(true)
  error,                 \* useState('')
  debouncedSearchQuery,  \* useDebounce's debouncedValue
  timers,                \* pending setTimeout handlers of useDebounce
  inflight,              \* api.get calls not yet settled, each with the
                         \* list shown when it was issued, whether another
                         \* call's response has replaced that list since,
                         \* and whether a later call's response has
                         \* already arrived
  issued,                \* number of api.get calls made so far
  lastFetch,             \* params of the most recent api.get call
  sinceChange,           \* ms since searchQuery last changed (capped at Delay)
  resetAt,               \* value of issued at the last handleReset not yet
                         \* followed by another user action, else -1
  burst,                 \* search-text changes the latest timer stands
                         \* for: 0 on mount, 1, or 2 for "two or more"
  shown,                 \* the response perks holds: "none" yet, "fresh",
                         \* or "stale" when a call issued after its own
                         \* had already succeeded when it resolved
  lastEvent              \* the task that produced the current state

vars == << mounted, perks, searchQuery, merchantFilter, uniqueMerchants,
           loading, error, debouncedSearchQuery, timers, inflight, issued,
           lastFetch, sinceChange, resetAt, burst, shown, lastEvent >>

Min(a, b) == IF a <= b THEN a ELSE b

\* ------------------------------------------------------------ useDebounce
\* a timer armed without the delay
NewTimer_NoDelay(value) == [value |-> value, remaining |-> 0]

\* setTimeout(() => setDebouncedValue(value), delay)
NewTimer(value) == [value |-> value, remaining |-> Delay]

\* a cleanup that leaves the timer running
useDebounceCleanup_NoClear(ts) == ts

\* the effect's cleanup: clearTimeout(handler)
useDebounceCleanup(ts) == {}

\* an effect that returns no cleanup
useDebounceEffect_NoCleanup(ts, value) == ts \cup { NewTimer(value) }

\* value changed: cleanup of the previous effect, then the effect again
useDebounceEffect(ts, value) == useDebounceCleanup(ts) \cup { NewTimer(value) }

\* ----------------------------------------------------------- loadAllPerks
\* params: { search: debouncedSearchQuery.trim() || undefined,
\*           merchant: merchantFilter.trim() || undefined }
\* the trimmed text without the "|| undefined"
TrimOrUndefined_EmptyKept(s) == Trim(s)

TrimOrUndefined(s) == IF Truthy(Trim(s)) THEN Trim(s) ELSE Undefined

RequestParams(dsq, mf) ==
  [search |-> TrimOrUndefined(dsq), merchant |-> TrimOrUndefined(mf)]

NoParams == [search |-> Undefined, merchant |-> Undefined]

CanFetch == issued < MaxFetches /\ Cardinality(inflight) < MaxInFlight

\* a loadAllPerks that forgets setLoading(true)
loadAllPerks_NoLoading(dsq, mf) ==
  /\ CanFetch
  /\ error' = ""
  /\ loading' = loading
  /\ issued' = issued + 1
  /\ lastFetch' = RequestParams(dsq, mf)
  /\ inflight' = inflight \cup
       { [id |-> issued + 1,
          perksBefore |-> perks, overtaken |-> FALSE,
          newerDone |-> FALSE] }

\* the synchronous part of loadAllPerks, up to the await
loadAllPerks(dsq, mf) ==
  /\ CanFetch
  /\ error' = ""
  /\ loading' = TRUE
  /\ issued' = issued + 1
  /\ lastFetch' = RequestParams(dsq, mf)
  /\ inflight' = inflight \cup
       { [id |-> issued + 1,
          perksBefore |-> perks, overtaken |-> FALSE,
          newerDone |-> FALSE] }

\* err?.response?.data?.message
OptionalMessage(err) ==
  IF err.response /\ err.data /\ err.hasMessage THEN err.message ELSE ""

\* the message without the fallback
ErrorMessage_NoFallback(err) == OptionalMessage(err)

\* the fallback whatever the collaborator says
ErrorMessage_AlwaysFallback(err) == FallbackMsg

\* err?.response?.data?.message || 'Failed to load perks'
ErrorMessage(err) ==
  IF OptionalMessage(err) # "" THEN OptionalMessage(err) ELSE FallbackMsg

\* ------------------------------------------------- useEffect on [perks]
\* perks.map(perk => perk.merchant).filter(m => m && m.trim())
RECURSIVE MerchantsOf(_)
MerchantsOf(ps) ==
  IF ps = <<>> THEN <<>>
  ELSE LET m == Head(ps).merchant
       IN  IF Truthy(m) /\ Truthy(Trim(m))
           THEN <<m>> \o MerchantsOf(Tail(ps))
           ELSE MerchantsOf(Tail(ps))

Elems(s) == { s[i] : i \in 1..Len(s) }

\* [...new Set(merchants)]: first occurrences, in order
RECURSIVE Unique(_)
Unique(s) ==
  IF s = <<>> THEN <<>>
  ELSE LET init == Unique(SubSeq(s, 1, Len(s) - 1))
           x == s[Len(s)]
       IN  IF x \in Elems(init) THEN init ELSE Append(init, x)

UniqueMerchantsOf(ps) == Unique(MerchantsOf(ps))

\* ------------------------------------------------------------------ Init
\* the state after mount: both effects have run once
Init ==
  /\ mounted = TRUE
  /\ perks = <<>>
  /\ searchQuery = EmptyStr
  /\ merchantFilter = EmptyStr
  /\ uniqueMerchants = <<>>
  /\ loading = TRUE
  /\ error = ""
  /\ debouncedSearchQuery = EmptyStr
  /\ timers = { NewTimer(EmptyStr) }
  /\ inflight = { [id |-> 1,
                   perksBefore |-> <<>>, overtaken |-> FALSE,
                   newerDone |-> FALSE] }
  /\ issued = 1
  /\ lastFetch = RequestParams(EmptyStr, EmptyStr)
  /\ sinceChange = 0
  /\ resetAt = -1
  /\ burst = 0
  /\ shown = "none"
  /\ lastEvent = "mount"

\* --------------------------------------------------------------- actions
\* a change of the search text joins the changes the pending timer stood for
NextBurst == IF timers = {} THEN 1 ELSE Min(2, burst + 1)

\* onChange of the search input
handleSearchQueryChange(v) ==
  /\ mounted
  /\ v # searchQuery
  /\ searchQuery' = v
  /\ timers' = useDebounceEffect(timers, v)
  /\ sinceChange' = 0
  /\ burst' = NextBurst
  /\ resetAt' = -1
  /\ lastEvent' = "type"
  /\ UNCHANGED shown
  /\ UNCHANGED << mounted, perks, merchantFilter, uniqueMerchants, loading,
                  error, debouncedSearchQuery, inflight, issued, lastFetch >>

\* the options of the merchant <select>
MerchantOptions == { EmptyStr } \cup Elems(uniqueMerchants)

\* a merchant change that useEffect #2 does not depend on
handleMerchantFilterChange_NoFetch(m) ==
  /\ mounted
  /\ m # merchantFilter
  /\ merchantFilter' = m
  /\ resetAt' = -1
  /\ lastEvent' = "merchant"
  /\ UNCHANGED shown
  /\ UNCHANGED << mounted, perks, searchQuery, uniqueMerchants, loading, error,
                  debouncedSearchQuery, timers, inflight, issued, lastFetch,
                  sinceChange, burst >>

\* onChange of the merchant select; useEffect #2 then runs loadAllPerks
handleMerchantFilterChange(m) ==
  /\ mounted
  /\ m # merchantFilter
  /\ merchantFilter' = m
  /\ loadAllPerks(debouncedSearchQuery, m)
  /\ resetAt' = -1
  /\ lastEvent' = "merchant"
  /\ UNCHANGED shown
  /\ UNCHANGED << mounted, perks, searchQuery, uniqueMerchants,
                  debouncedSearchQuery, timers, sinceChange, burst >>

\* a submit that reads the text of the input box
handleSearch_Immediate ==
  /\ mounted
  /\ loadAllPerks(searchQuery, merchantFilter)
  /\ resetAt' = -1
  /\ lastEvent' = "submit"
  /\ UNCHANGED shown
  /\ UNCHANGED << mounted, perks, searchQuery, merchantFilter,
                  uniqueMerchants, debouncedSearchQuery, timers, sinceChange, burst >>

\* onSubmit of the form (Enter, or the Search Now button)
handleSearch ==
  /\ mounted
  /\ loadAllPerks(debouncedSearchQuery, merchantFilter)
  /\ resetAt' = -1
  /\ lastEvent' = "submit"
  /\ UNCHANGED shown
  /\ UNCHANGED << mounted, perks, searchQuery, merchantFilter,
                  uniqueMerchants, debouncedSearchQuery, timers, sinceChange, burst >>

\* onClick of Try Again, rendered only while error is truthy
TryAgain ==
  /\ mounted
  /\ error # ""
  /\ loadAllPerks(debouncedSearchQuery, merchantFilter)
  /\ resetAt' = -1
  /\ lastEvent' = "retry"
  /\ UNCHANGED shown
  /\ UNCHANGED << mounted, perks, searchQuery, merchantFilter,
                  uniqueMerchants, debouncedSearchQuery, timers, sinceChange, burst >>

\* onClick of Reset Filters
handleReset ==
  /\ mounted
  /\ searchQuery' = EmptyStr
  /\ merchantFilter' = EmptyStr
  /\ IF searchQuery # EmptyStr
     THEN /\ timers' = useDebounceEffect(timers, EmptyStr)
          /\ sinceChange' = 0
          /\ burst' = NextBurst
     ELSE UNCHANGED << timers, sinceChange, burst >>
  /\ IF merchantFilter # EmptyStr
     THEN loadAllPerks(debouncedSearchQuery, EmptyStr)
     ELSE /\ error' = ""
          /\ UNCHANGED << loading, inflight, issued, lastFetch >>
  /\ resetAt' = issued
  /\ lastEvent' = "reset"
  /\ UNCHANGED shown
  /\ UNCHANGED << mounted, perks, uniqueMerchants, debouncedSearchQuery >>

\* time passes, up to the next timer's expiry
Tick ==
  /\ \A t \in timers : t.remaining > 0
  /\ timers # {} \/ sinceChange < Delay
  /\ LET d == IF timers = {} THEN TickMs
              ELSE Min(TickMs, CHOOSE r \in { t.remaining : t \in timers } :
                                 \A t \in timers : r <= t.remaining)
     IN  /\ timers' = { [t EXCEPT !.remaining = t.remaining - d] : t \in timers }
         /\ sinceChange' = Min(Delay, sinceChange + d)
  /\ lastEvent' = "tick"
  /\ UNCHANGED shown
  /\ UNCHANGED << mounted, perks, searchQuery, merchantFilter, uniqueMerchants,
                  loading, error, debouncedSearchQuery, inflight, issued,
                  lastFetch, resetAt, burst >>

\* a timer callback whose new value useEffect #2 does not depend on
TimerFires_NoFetch(t) ==
  /\ t \in timers
  /\ t.remaining = 0
  /\ timers' = timers \ { t }
  /\ lastEvent' = "timer"
  /\ UNCHANGED shown
  /\ IF mounted /\ t.value # debouncedSearchQuery
     THEN /\ debouncedSearchQuery' = t.value
          /\ UNCHANGED << loading, error, inflight, issued, lastFetch >>
     ELSE UNCHANGED << debouncedSearchQuery, loading, error, inflight, issued,
                       lastFetch >>
  /\ UNCHANGED << mounted, perks, searchQuery, merchantFilter, uniqueMerchants,
                  sinceChange, resetAt, burst >>

\* a timer callback after which useEffect #2 runs whether or not the
\* debounced value changed
TimerFires_AlwaysFetch(t) ==
  /\ t \in timers
  /\ t.remaining = 0
  /\ timers' = timers \ { t }
  /\ lastEvent' = "timer"
  /\ UNCHANGED shown
  /\ IF mounted
     THEN /\ debouncedSearchQuery' = t.value
          /\ loadAllPerks(t.value, merchantFilter)
     ELSE UNCHANGED << debouncedSearchQuery, loading, error, inflight, issued,
                       lastFetch >>
  /\ UNCHANGED << mounted, perks, searchQuery, merchantFilter, uniqueMerchants,
                  sinceChange, resetAt, burst >>

\* the timer's callback: setDebouncedValue(value); useEffect #2 runs
\* loadAllPerks when debouncedSearchQuery changed
TimerFires(t) ==
  /\ t \in timers
  /\ t.remaining = 0
  /\ timers' = timers \ { t }
  /\ lastEvent' = "timer"
  /\ UNCHANGED shown
  /\ IF mounted /\ t.value # debouncedSearchQuery
     THEN /\ debouncedSearchQuery' = t.value
          /\ loadAllPerks(t.value, merchantFilter)
     ELSE UNCHANGED << debouncedSearchQuery, loading, error, inflight, issued,
                       lastFetch >>
  /\ UNCHANGED << mounted, perks, searchQuery, merchantFilter, uniqueMerchants,
                  sinceChange, resetAt, burst >>

\* a continuation that appends the response to the list already shown
FetchSucceeds_Merge(r, resp) ==
  /\ r \in inflight
  /\ inflight' = IF mounted
                 THEN { [q EXCEPT !.overtaken = TRUE,
                                  !.newerDone = @ \/ r.id > q.id] :
                          q \in inflight \ { r } }
                 ELSE inflight \ { r }
  /\ lastEvent' = "success"
  /\ IF mounted
     THEN /\ perks' = perks \o resp
          /\ shown' = IF r.newerDone THEN "stale" ELSE "fresh"
          /\ uniqueMerchants' = UniqueMerchantsOf(perks \o resp)
          /\ loading' = FALSE
     ELSE UNCHANGED << perks, shown, uniqueMerchants, loading >>
  /\ UNCHANGED << mounted, searchQuery, merchantFilter, error,
                  debouncedSearchQuery, timers, issued, lastFetch,
                  sinceChange, resetAt, burst >>

\* a continuation that discards the response of a call that is not the
\* latest issued
FetchSucceeds_LatestOnly(r, resp) ==
  /\ r \in inflight
  /\ inflight' = IF mounted /\ r.id = issued
                 THEN { [q EXCEPT !.overtaken = TRUE,
                                  !.newerDone = @ \/ r.id > q.id] :
                          q \in inflight \ { r } }
                 ELSE inflight \ { r }
  /\ lastEvent' = "success"
  /\ IF mounted /\ r.id = issued
     THEN /\ perks' = resp
          /\ shown' = IF r.newerDone THEN "stale" ELSE "fresh"
          /\ uniqueMerchants' = UniqueMerchantsOf(resp)
          /\ loading' = FALSE
     ELSE UNCHANGED << perks, shown, uniqueMerchants, loading >>
  /\ UNCHANGED << mounted, searchQuery, merchantFilter, error,
                  debouncedSearchQuery, timers, issued, lastFetch,
                  sinceChange, resetAt, burst >>

\* api.get resolves: setPerks(res.data.perks), finally setLoading(false),
\* then the effect on [perks] recomputes uniqueMerchants
FetchSucceeds(r, resp) ==
  /\ r \in inflight
  /\ inflight' = IF mounted
                 THEN { [q EXCEPT !.overtaken = TRUE,
                                  !.newerDone = @ \/ r.id > q.id] :
                          q \in inflight \ { r } }
                 ELSE inflight \ { r }
  /\ lastEvent' = "success"
  /\ IF mounted
     THEN /\ perks' = resp
          /\ shown' = IF r.newerDone THEN "stale" ELSE "fresh"
          /\ uniqueMerchants' = UniqueMerchantsOf(resp)
          /\ loading' = FALSE
     ELSE UNCHANGED << perks, shown, uniqueMerchants, loading >>
  /\ UNCHANGED << mounted, searchQuery, merchantFilter, error,
                  debouncedSearchQuery, timers, issued, lastFetch,
                  sinceChange, resetAt, burst >>

\* a rejection handled without the finally block
FetchFails_NoFinally(r, err) ==
  /\ r \in inflight
  /\ inflight' = inflight \ { r }
  /\ lastEvent' = "failure"
  /\ UNCHANGED shown
  /\ IF mounted
     THEN /\ error' = ErrorMessage(err)
          /\ loading' = loading
     ELSE UNCHANGED << error, loading >>
  /\ UNCHANGED << mounted, perks, searchQuery, merchantFilter, uniqueMerchants,
                  debouncedSearchQuery, timers, issued, lastFetch,
                  sinceChange, resetAt, burst >>

\* a catch block that calls loadAllPerks again by itself
FetchFails_AutoRetry(r, err) ==
  /\ r \in inflight
  /\ lastEvent' = "failure"
  /\ UNCHANGED shown
  /\ IF mounted /\ issued < MaxFetches
     THEN /\ error' = ErrorMessage(err)
          /\ loading' = TRUE
          /\ issued' = issued + 1
          /\ lastFetch' = lastFetch
          /\ inflight' = (inflight \ { r }) \cup
               { [id |-> issued + 1,
                  perksBefore |-> perks, overtaken |-> FALSE,
                  newerDone |-> FALSE] }
     ELSE /\ inflight' = inflight \ { r }
          /\ UNCHANGED << error, loading, issued, lastFetch >>
  /\ UNCHANGED << mounted, perks, searchQuery, merchantFilter, uniqueMerchants,
                  debouncedSearchQuery, timers, sinceChange, resetAt, burst >>

\* api.get rejects: catch sets error, finally setLoading(false)
FetchFails(r, err) ==
  /\ r \in inflight
  /\ inflight' = inflight \ { r }
  /\ lastEvent' = "failure"
  /\ UNCHANGED shown
  /\ IF mounted
     THEN /\ error' = ErrorMessage(err)
          /\ loading' = FALSE
     ELSE UNCHANGED << error, loading >>
  /\ UNCHANGED << mounted, perks, searchQuery, merchantFilter, uniqueMerchants,
                  debouncedSearchQuery, timers, issued, lastFetch,
                  sinceChange, resetAt, burst >>

\* the component is torn down: the effects' cleanups run
Unmount ==
  /\ mounted
  /\ mounted' = FALSE
  /\ timers' = useDebounceCleanup(timers)
  /\ resetAt' = -1
  /\ lastEvent' = "unmount"
  /\ UNCHANGED shown
  /\ UNCHANGED << perks, searchQuery, merchantFilter, uniqueMerchants, loading,
                  error, debouncedSearchQuery, inflight, issued, lastFetch,
                  sinceChange, burst >>

Next ==
  \/ \E v \in SearchTexts : handleSearchQueryChange(v)
  \/ \E m \in MerchantOptions : handleMerchantFilterChange(m)
  \/ handleSearch
  \/ TryAgain
  \/ handleReset
  \/ Tick
  \/ \E t \in timers : TimerFires(t)
  \/ \E r \in inflight, resp \in Responses : FetchSucceeds(r, resp)
  \/ \E r \in inflight, err \in Errors : FetchFails(r, err)
  \/ Unmount

Spec == Init /\ [][Next]_vars

\* an awaited api.get call settles, one way or the other
Settle ==
  \E r \in inflight :
    \/ \E resp \in Responses : FetchSucceeds(r, resp)
    \/ \E err \in Errors : FetchFails(r, err)

\* every issued fetch eventually settles
FairSpec == Init /\ [][Next]_vars /\ WF_vars(Settle)

TypeOK ==
  /\ mounted \in BOOLEAN
  /\ loading \in BOOLEAN
  /\ searchQuery \in SearchTexts
  /\ debouncedSearchQuery \in SearchTexts
  /\ perks \in Responses
  /\ issued \in 1..MaxFetches
  /\ Cardinality(inflight) <= MaxInFlight

\* ================================================================ claims

\* C1 (as stated): when the timer of a sequence of search-text changes fires,
\* exactly one fetch is issued and it carries the final text (trimmed, absent
\* when blank) as its search parameter.
C1_Original ==
  [][ (mounted /\ lastEvent' = "timer" /\ burst >= 1)
        => /\ issued' = issued + 1
           /\ lastFetch'.search = TrimOrUndefined(searchQuery) ]_vars

\* C1 (amended): a change of the search text issues no fetch, cancels the
\* pending timer and arms one timer for the new text with the full delay; at
\* most one timer is ever pending; the timer of a sequence of changes fires
\* only once the delay has elapsed after the last change, stands for the final
\* text, and issues exactly one fetch carrying the final text (trimmed, absent
\* when blank) when that text differs from debouncedSearchQuery, and no fetch
\* when it equals it.
C1_Debounce ==
  [][ /\ Cardinality(timers') <= 1
      /\ (mounted /\ lastEvent' = "type")
           => /\ issued' = issued
              /\ inflight' = inflight
              /\ timers' = { [value |-> searchQuery', remaining |-> Delay] }
      /\ (mounted /\ lastEvent' = "timer" /\ burst >= 1)
           => /\ sinceChange = Delay
              /\ timers = { [value |-> searchQuery, remaining |-> 0] }
              /\ debouncedSearchQuery' = searchQuery
              /\ IF searchQuery # debouncedSearchQuery
                 THEN /\ issued' = issued + 1
                      /\ lastFetch'.search = TrimOrUndefined(searchQuery)
                 ELSE /\ issued' = issued
                      /\ inflight' = inflight ]_vars

\* C1 witness: the timer of two or more changes has fired and issued the one
\* fetch that followed the mount's, for the final text " a ".
C1_Witness ==
  /\ mounted /\ lastEvent = "timer" /\ burst = 2
  /\ issued = 2
  /\ searchQuery = <<" ", "a", " ">>
  /\ lastFetch.search = <<"a">>

\* C2 (as stated): an explicit submit issues a fetch at once whose search
\* parameter is the text of the input box (searchQuery, trimmed).
C2_Original ==
  [][ (mounted /\ lastEvent' = "submit")
        => /\ issued' = issued + 1
           /\ lastFetch'.search = TrimOrUndefined(searchQuery) ]_vars

\* C2 (amended): an explicit submit issues a fetch at once, with no time
\* elapsing and the pending timer left as it is, whose search parameter is
\* the debounced text (debouncedSearchQuery, trimmed, absent when blank); it
\* is the text of the input box only when the debounce has settled.
C2_Submit ==
  [][ (mounted /\ lastEvent' = "submit")
        => /\ issued' = issued + 1
           /\ \E r \in inflight' \ inflight :
                r.id = issued'
           /\ lastFetch'.search =
                (IF Trim(debouncedSearchQuery) = <<>> THEN Undefined
                 ELSE Trim(debouncedSearchQuery))
           /\ timers' = timers
           /\ sinceChange' = sinceChange
           /\ debouncedSearchQuery' = debouncedSearchQuery
           /\ (debouncedSearchQuery = searchQuery
                 => lastFetch'.search = TrimOrUndefined(searchQuery)) ]_vars

\* C2 witness: a submit made while the timer for newly typed text is pending.
C2_Witness ==
  /\ mounted /\ lastEvent = "submit"
  /\ timers # {}
  /\ searchQuery = <<" ", "a", " ">> /\ debouncedSearchQuery = <<>>
  /\ lastFetch.search = Undefined

\* C3 (as stated): right after a fetch fails, perks is what it was before the
\* attempt was issued, loading is false and error is non-empty.
C3_Original ==
  [][ (mounted /\ lastEvent' = "failure")
        => \A r \in inflight \ inflight' :
             /\ perks' = r.perksBefore
             /\ loading' = FALSE
             /\ error' # "" ]_vars

\* C3 (amended): right after a fetch of the mounted component fails, perks is
\* what it was just before the failure settled (which is what it was before
\* the attempt was issued unless another fetch succeeded while this one was in
\* flight), loading is false and error is non-empty, also with other fetches
\* in flight.
C3_Failure ==
  [][ (mounted /\ lastEvent' = "failure")
        => /\ perks' = perks
           /\ uniqueMerchants' = uniqueMerchants
           /\ loading' = FALSE
           /\ error' # ""
           /\ \A r \in inflight \ inflight' :
                ~r.overtaken => perks' = r.perksBefore ]_vars

\* C3 witness: a fetch has failed while another one is still in flight.
C3_Witness ==
  /\ mounted /\ lastEvent = "failure"
  /\ inflight # {}
  /\ perks # <<>>
  /\ error = "Failed to load perks"

\* the distinct, non-empty, trimmed merchant values of a list
TrimmedMerchantSet(ps) ==
  { Trim(ps[i].merchant) :
      i \in { j \in 1..Len(ps) : /\ ps[j].merchant # Undefined
                                 /\ Trim(ps[j].merchant) # <<>> } }

\* C4: in every state of the mounted component uniqueMerchants holds exactly
\* the distinct, non-empty, trimmed merchant values of perks, each once
\* (values differing only by surrounding whitespace count as one), and only
\* the recomputation from perks changes it.
C4_UniqueMerchants ==
  /\ Elems(uniqueMerchants) = TrimmedMerchantSet(perks)
  /\ Len(uniqueMerchants) = Cardinality(TrimmedMerchantSet(perks))

\* C5: once handleReset has run and its debounce has settled, with no other
\* user action in between, searchQuery, merchantFilter and error were cleared
\* and a fetch with neither search nor merchant parameter has been issued
\* since the reset.
C5_ResetRefetches ==
  (mounted /\ resetAt >= 0 /\ timers = {})
    => /\ searchQuery = <<>>
       /\ merchantFilter = <<>>
       /\ issued > resetAt
       /\ lastFetch = NoParams

\* C6: every change of the merchant filter issues, in the same step, one fetch
\* whose merchant parameter is the new value (trimmed, absent when empty; the
\* value itself when it has no surrounding whitespace); a change made through
\* the select lets no time elapse and leaves the pending debounce timer and
\* the debounced text as they are.
C6_MerchantImmediate ==
  [][ (mounted /\ merchantFilter' # merchantFilter)
        => /\ issued' = issued + 1
           /\ \E r \in inflight' \ inflight :
                r.id = issued'
           /\ lastFetch'.merchant =
                (IF Trim(merchantFilter') = <<>> THEN Undefined
                 ELSE Trim(merchantFilter'))
           /\ (merchantFilter' # <<>> /\ Trim(merchantFilter') = merchantFilter'
                 => lastFetch'.merchant = merchantFilter')
           /\ (lastEvent' = "merchant"
                 => /\ timers' = timers
                    /\ sinceChange' = sinceChange
                    /\ debouncedSearchQuery' = debouncedSearchQuery) ]_vars

\* C6 witness: merchant "a" was selected while the debounce timer for typed
\* text was pending, and the fetch with merchant=a is in flight.
C6_Witness ==
  /\ mounted /\ lastEvent = "merchant"
  /\ merchantFilter = <<"a">>
  /\ lastFetch.merchant = <<"a">>
  /\ timers # {} /\ searchQuery # debouncedSearchQuery
  /\ \E r \in inflight : r.id = issued

\* C7: every fetch issued, by whatever trigger, has its search parameter
\* absent (and never the empty string) exactly when the search text used is
\* empty after trimming and otherwise equal to the trimmed text, and its
\* merchant parameter likewise for the merchant filter.
C7_Params ==
  [][ issued' # issued
        => /\ \E r \in inflight' \ inflight :
                r.id = issued'
           /\ (lastFetch'.search = Undefined
                 <=> Trim(debouncedSearchQuery') = <<>>)
           /\ (lastFetch'.search # Undefined
                 => lastFetch'.search = Trim(debouncedSearchQuery'))
           /\ lastFetch'.search # <<>>
           /\ (lastFetch'.merchant = Undefined
                 <=> Trim(merchantFilter') = <<>>)
           /\ (lastFetch'.merchant # Undefined
                 => lastFetch'.merchant = Trim(merchantFilter'))
           /\ lastFetch'.merchant # <<>> ]_vars

\* C7 witness: a fetch issued for a blank debounced text and a merchant with
\* surrounding whitespace.
C7_Witness ==
  /\ mounted /\ issued > 1
  /\ \E r \in inflight : r.id = issued
  /\ debouncedSearchQuery = <<" ">> /\ lastFetch.search = Undefined
  /\ merchantFilter = <<" ", "a">> /\ lastFetch.merchant = <<"a">>

\* C8: the delay is 500 ms; debouncedSearchQuery changes only when the timer
\* fires; the timer fires no earlier than 500 ms after the last change of
\* searchQuery, sets debouncedSearchQuery to searchQuery and leaves no timer
\* pending (so the update happens once); until then exactly one timer, for
\* the current searchQuery and due 500 ms after its change, is pending, and
\* time does not pass its expiry without it firing.
C8_DebouncedUpdate ==
  [][ /\ Delay = 500
      /\ debouncedSearchQuery' # debouncedSearchQuery => lastEvent' = "timer"
      /\ (mounted /\ lastEvent' = "timer")
           => /\ sinceChange = Delay
              /\ debouncedSearchQuery' = searchQuery'
              /\ searchQuery' = searchQuery
              /\ timers' = {}
      /\ (mounted' /\ timers' = {}) => debouncedSearchQuery' = searchQuery'
      /\ (mounted' /\ timers' # {})
           => timers' = { [value |-> searchQuery',
                           remaining |-> 500 - sinceChange'] }
      /\ (lastEvent' = "tick" /\ timers # {})
           => \A t \in timers : t.remaining > 0 ]_vars

\* C8 witness: " a " was typed, 500 ms passed, and the timer has fired.
C8_Witness ==
  /\ mounted /\ lastEvent = "timer" /\ burst = 1
  /\ searchQuery = <<" ", "a", " ">>
  /\ debouncedSearchQuery = <<" ", "a", " ">>
  /\ sinceChange = 500 /\ timers = {}

\* C9: teardown cancels the pending timer: after it no timer is pending, the
\* debounced value never changes and no fetch is issued.
C9_Teardown ==
  [][ /\ ~mounted' => timers' = {}
      /\ ~mounted => /\ debouncedSearchQuery' = debouncedSearchQuery
                     /\ issued' = issued
                     /\ lastFetch' = lastFetch
                     /\ inflight' \subseteq inflight ]_vars

\* C9 witness: the component was torn down with typed text not yet debounced,
\* and the delay has since passed.
C9_Witness ==
  /\ ~mounted
  /\ searchQuery = <<" ", "a", " ">> /\ debouncedSearchQuery = <<>>
  /\ sinceChange = Delay
  /\ lastEvent = "tick"

\* C10: when a fetch of the mounted component fails, error becomes the
\* collaborator's message if the failure carries a (non-empty) one, and
\* 'Failed to load perks' when there is no response, no body or no message.
C10_ErrorMessage ==
  [][ mounted =>
        \A r \in inflight, e \in Errors :
          FetchFails(r, e)
            => error' = (IF e.response /\ e.data /\ e.hasMessage
                            /\ e.message # ""
                         THEN e.message
                         ELSE "Failed to load perks") ]_vars

\* C10 witness: a failure that carried a message has just settled.
C10_Witness ==
  /\ mounted /\ lastEvent = "failure"
  /\ error = "Server down"
  /\ loading = FALSE

\* the ids of a set of requests
Ids(rs) == { r.id : r \in rs }

\* C11: Try Again is offered only while error is non-empty; it issues one new
\* fetch whose parameters are those of the filter state at the click (the
\* debounced text and the merchant filter, trimmed, absent when empty, as an
\* automatic fetch would send), clears error and sets loading; a failure
\* itself issues no fetch, and fetches are only ever issued by a merchant
\* change, a submit, a retry, a reset that changes the merchant filter, or a
\* timer that changes the debounced text.
C11_Retry ==
  [][ /\ (mounted /\ lastEvent' = "retry")
           => /\ error # ""
              /\ issued' = issued + 1
              /\ \E r \in inflight' \ inflight :
                   r.id = issued'
              /\ lastFetch'.search =
                   (IF Trim(debouncedSearchQuery) = <<>> THEN Undefined
                    ELSE Trim(debouncedSearchQuery))
              /\ lastFetch'.merchant =
                   (IF Trim(merchantFilter) = <<>> THEN Undefined
                    ELSE Trim(merchantFilter))
              /\ error' = ""
              /\ loading' = TRUE
              /\ perks' = perks
      /\ lastEvent' = "failure"
           => /\ issued' = issued
              /\ lastFetch' = lastFetch
              /\ Ids(inflight') \subseteq Ids(inflight)
      /\ issued' # issued
           => /\ lastEvent' \in { "merchant", "submit", "retry", "reset", "timer" }
              /\ lastEvent' = "timer"
                   => debouncedSearchQuery' # debouncedSearchQuery
              /\ lastEvent' = "reset" => merchantFilter' # merchantFilter ]_vars

\* C11 witness: after a failure Try Again was clicked and its fetch, for the
\* debounced text " a ", is in flight.
C11_Witness ==
  /\ mounted /\ lastEvent = "retry"
  /\ debouncedSearchQuery = <<" ", "a", " ">>
  /\ lastFetch.search = <<"a">>
  /\ error = "" /\ loading = TRUE
  /\ \E r \in inflight : r.id = issued

\* C12: a fetch leaves the set of fetches in flight only by settling, one at
\* a time, so none is cancelled or discarded; whenever a fetch of the mounted
\* component succeeds, perks becomes its response, also when it was issued
\* before a fetch that has already succeeded (the displayed list is then that
\* of a superseded request).
C12_LastResolvedWins ==
  [][ /\ lastEvent' \notin { "success", "failure" }
           => Ids(inflight) \subseteq Ids(inflight')
      /\ lastEvent' \in { "success", "failure" }
           => /\ Ids(inflight') \subseteq Ids(inflight)
              /\ Cardinality(Ids(inflight) \ Ids(inflight')) = 1
      /\ (mounted /\ lastEvent' = "success") =>
           \A r \in inflight, resp \in Responses :
             FetchSucceeds(r, resp)
               => /\ perks' = resp
                  /\ (r.newerDone <=> shown' = "stale")
                  /\ (r.newerDone => r.id < issued) ]_vars

\* C12 witness: two fetches were in flight, the later one succeeded first, and
\* the earlier one has just succeeded and replaced its list.
C12_Witness ==
  /\ mounted /\ lastEvent = "success"
  /\ shown = "stale"
  /\ inflight = {}
  /\ perks = << Perk(<<" ", "a">>), Perk(<<"a">>), Perk(Undefined) >>

\* C13: every step of the mounted component that changes debouncedSearchQuery
\* or merchantFilter issues exactly one fetch, with error empty and loading
\* true once it is issued and with parameters built from the values of
\* debouncedSearchQuery and merchantFilter after the change; typing in the
\* search box (a change of searchQuery alone) issues no fetch and leaves
\* perks, loading, error, merchantFilter and debouncedSearchQuery unchanged.
C13_Triggers ==
  [][ /\ (mounted /\ (debouncedSearchQuery' # debouncedSearchQuery
                       \/ merchantFilter' # merchantFilter))
           => /\ issued' = issued + 1
              /\ Cardinality(inflight' \ inflight) = 1
              /\ \E r \in inflight' \ inflight :
                   r.id = issued'
              /\ error' = ""
              /\ loading' = TRUE
              /\ lastFetch' =
                   [search |-> IF Trim(debouncedSearchQuery') = <<>>
                               THEN Undefined
                               ELSE Trim(debouncedSearchQuery'),
                    merchant |-> IF Trim(merchantFilter') = <<>>
                                 THEN Undefined
                                 ELSE Trim(merchantFilter')]
      /\ (mounted /\ lastEvent' = "type")
           => /\ searchQuery' # searchQuery
              /\ issued' = issued
              /\ inflight' = inflight
              /\ lastFetch' = lastFetch
              /\ perks' = perks
              /\ loading' = loading
              /\ error' = error
              /\ merchantFilter' = merchantFilter
              /\ debouncedSearchQuery' = debouncedSearchQuery ]_vars

\* C13 witness: the debounced text has just changed to " a " after an earlier
\* fetch had settled, and the one fetch for it is in flight with loading on.
C13_Witness ==
  /\ mounted /\ lastEvent = "timer"
  /\ debouncedSearchQuery = <<" ", "a", " ">>
  /\ issued = 2
  /\ lastFetch = [search |-> <<"a">>, merchant |-> Undefined]
  /\ inflight = { [id |-> 2,
                   perksBefore |-> <<>>, overtaken |-> FALSE,
                   newerDone |-> FALSE] }
  /\ loading = TRUE /\ error = ""

\* C14: whenever a fetch of the mounted component settles, by success or by
\* failure, loading is false in the resulting state; and when every issued
\* fetch eventually settles and no more fetches are triggered, the mounted
\* component eventually has loading false and keeps it.
C14_LoadingEnds ==
  /\ [][ (mounted /\ lastEvent' \in { "success", "failure" })
           => loading' = FALSE ]_vars
  /\ <>[](mounted => loading = FALSE)

\* C14 witness: every fetch has settled, the last one by failure, and
\* loading is off.
C14_Witness ==
  /\ mounted /\ lastEvent = "failure"
  /\ issued >= 2
  /\ inflight = {}
  /\ loading = FALSE

\* C15: when a fetch of the mounted component succeeds, perks becomes exactly
\* the list of the response (same records, same order, nothing of the
\* previous list kept), and error, searchQuery, merchantFilter and
\* debouncedSearchQuery are left as they were.
C15_SuccessReplaces ==
  [][ (mounted /\ lastEvent' = "success") =>
        \A r \in inflight, resp \in Responses :
          FetchSucceeds(r, resp)
            => /\ Len(perks') = Len(resp)
               /\ \A i \in 1..Len(resp) : perks'[i] = resp[i]
               /\ error' = error
               /\ searchQuery' = searchQuery
               /\ merchantFilter' = merchantFilter
               /\ debouncedSearchQuery' = debouncedSearchQuery ]_vars

\* C15 witness: a success has replaced a non-empty list by another one while
\* an error message and non-empty filters were on display.
C15_Witness ==
  /\ mounted /\ lastEvent = "success"
  /\ perks = << Perk(<<"b">>), Perk(<<" ">>), Perk(<<"b">>), Perk(<<>>) >>
  /\ merchantFilter = <<" ", "a">>
  /\ error = "Server down"

\* C16: in every state of the mounted component, loading is true while at
\* least one fetch is in flight.
C16_LoadingWhileInFlight ==
  (mounted /\ inflight # {}) => loading = TRUE

\* C17: in every state of the mounted component in which the debounce has
\* settled (debouncedSearchQuery equals searchQuery), the most recently issued
\* fetch carries exactly the parameters derived from the current searchQuery
\* and merchantFilter (trimmed, absent when empty).
C17_LastFetchCurrent ==
  (mounted /\ debouncedSearchQuery = searchQuery)
    => lastFetch =
         [search |-> IF Trim(searchQuery) = <<>> THEN Undefined
                     ELSE Trim(searchQuery),
          merchant |-> IF Trim(merchantFilter) = <<>> THEN Undefined
                       ELSE Trim(merchantFilter)]

\* C17 witness: typed text with surrounding blanks has settled and a merchant
\* with a leading blank is selected; the latest fetch carries both trimmed.
C17_Witness ==
  /\ mounted /\ timers = {}
  /\ searchQuery = <<" ", "a", " ">> /\ debouncedSearchQuery = searchQuery
  /\ merchantFilter = <<" ", "a">>
  /\ lastFetch = [search |-> <<"a">>, merchant |-> <<"a">>]

\* C18: right after mount exactly one fetch has been issued, with neither
\* search nor merchant parameter, loading is true and perks is empty; with no
\* user action, the expiry of the initial debounce timer, 500 ms later,
\* leaves debouncedSearchQuery unchanged and issues no second fetch.
C18_Mount ==
  /\ [](lastEvent = "mount"
          => /\ issued = 1
             /\ inflight = { [id |-> 1,
                              perksBefore |-> <<>>, overtaken |-> FALSE,
                              newerDone |-> FALSE] }
             /\ lastFetch = [search |-> Undefined, merchant |-> Undefined]
             /\ loading = TRUE
             /\ perks = <<>>
             /\ timers = { [value |-> <<>>, remaining |-> 500] })
  /\ [][ (mounted /\ lastEvent' = "timer" /\ burst = 0)
           => /\ sinceChange = 500
              /\ debouncedSearchQuery' = debouncedSearchQuery
              /\ debouncedSearchQuery' = <<>>
              /\ issued' = issued
              /\ inflight' = inflight
              /\ lastFetch' = lastFetch
              /\ timers' = {} ]_vars

\* C18 witness: 500 ms after mount, with no user action, the initial timer
\* has fired and the mount's fetch is still the only one.
C18_Witness ==
  /\ mounted /\ lastEvent = "timer" /\ burst = 0
  /\ issued = 1 /\ Ids(inflight) = { 1 }
  /\ loading = TRUE /\ perks = <<>>
  /\ searchQuery = <<>> /\ merchantFilter = <<>>
  /\ sinceChange = 500 /\ timers = {}
====
